---------------------------- MODULE Spec2Model ----------------------------
(***************************************************************************)
(* A model of the transform core of bzippr: the Burrows-Wheeler block      *)
(* transform (src/src/bwt/mod.rs), the combined move-to-front / RLE2 coder *)
(* (src/src/stages/mtf.rs) and the Huffman coder (src/src/stages/huff.rs). *)
(*                                                                         *)
(* The three stages are independent pure functions over values a caller    *)
(* holds.  Each stage has its own specification (SpecBwt, SpecMtf,         *)
(* SpecHuff) over the shared variables; Init of each draws the caller's    *)
(* input from bounded sets and the actions apply the stage's operations.   *)
(* Indices are 0-based as in the source; sequences are 1-based, so the     *)
(* element at source index i is s[i + 1].                                  *)
(***************************************************************************)
EXTENDS Integers, Sequences, FiniteSets, TLC

VARIABLES
    block,       \* the caller's byte block (&[u8])
    bwt,         \* the BwtEncoded the caller holds: [st, data, original_index]
    decoded,     \* the Result<Vec<u8>> of try_into: [st, bytes]
    mtf,         \* the MtfTransform the caller holds: [st, indices, stack]
    mtf_out,     \* the outcome of MtfTransform::decode: [st, bytes]
    freq_map,    \* build_tree: the FrequencyMap (function symbol -> count)
    freq_list,   \* build_tree: the local freq_list (sequence of Node)
    huff,        \* the outcome of HuffmanEncoder::new: [st, root, code_table]
    rle,         \* the RleSequence the caller holds: [st, seq]
    rle_out,     \* the outcome of RleSequence::decode: [st, bytes]
    run_input,   \* the run_length the caller passes to emit_run
    run_out      \* the symbols emit_run pushed: [st, syms]

vars == <<block, bwt, decoded, mtf, mtf_out, freq_map, freq_list, huff,
         rle, rle_out, run_input, run_out>>

\* ------------------------------------------------------------------ bounds
\* Longest input block.
MaxLen == 4
\* Input blocks are over the bytes 0..MaxByte.
MaxByte == 2
\* Longest symbol stream of a hand-built MtfTransform.
MaxSyms == 3
\* Largest stack of the skewed MTF results (see SkewMtf).
MaxSkew == 20
\* Longest zero run handed to emit_run on its own.
MaxRun == 200

Byte == 0..255
Alphabet == 0..MaxByte

SeqsUpTo(S, n) == UNION {[1..k -> S] : k \in 0..n}

Blocks == SeqsUpTo(Alphabet, MaxLen)

\* ---------------------------------------------------------------- helpers
Range(s) == {s[i] : i \in DOMAIN s}

\* Vec<u8> ordering (Ord for slices): lexicographic, a proper prefix is smaller.
RECURSIVE LexLess(_, _)
LexLess(a, b) ==
    IF a = <<>> THEN b # <<>>
    ELSE IF b = <<>> THEN FALSE
    ELSE IF a[1] # b[1] THEN a[1] < b[1]
    ELSE LexLess(Tail(a), Tail(b))

LexLeq(a, b) == a = b \/ LexLess(a, b)

\* The sequence t without its i-th element.
RemoveAt(t, i) == [k \in 1..(Len(t) - 1) |-> IF k < i THEN t[k] ELSE t[k + 1]]

\* slice::sort_unstable: the outcomes are the arrangements of the same rows that
\* are in order; which of two equal rows comes first is not specified, so every
\* smallest row may come first, and so on for the rest.
RECURSIVE SortUnstableOutcomes(_)
SortUnstableOutcomes(t) ==
    IF Len(t) = 0 THEN {<<>>}
    ELSE UNION {{<<t[i]>> \o rest : rest \in SortUnstableOutcomes(RemoveAt(t, i))} :
                i \in {j \in 1..Len(t) : \A k \in 1..Len(t) : LexLeq(t[j], t[k])}}

\* Iterator::position: the 0-based index of the first row equal to orig, if any.
Position(t, orig) ==
    IF \E i \in 1..Len(t) : t[i] = orig
    THEN <<(CHOOSE i \in 1..Len(t) : t[i] = orig /\ \A j \in 1..(i - 1) : t[j] # orig) - 1>>
    ELSE <<>>

\* --------------------------------------------------------------------- BWT
\* get_from_index: data_length bytes of data read cyclically from index.  Every
\* index get_shifts passes is below data_length, so data.get never fails here.
get_from_index(data, index) ==
    [k \in 1..Len(data) |-> data[((index + k - 1) % Len(data)) + 1]]

get_shifts(data) ==
    IF Len(data) = 0 THEN <<(<<>>)>>
    ELSE [idx \in 1..Len(data) |-> get_from_index(data, idx - 1)]

\* sort_table returning 0 whatever the position of orig is.
SortTableIndexFirst(sorted, orig) == 0

\* sort_table, the value returned for the sorted table `sorted` of a table whose
\* first row was orig: position(..).unwrap_or(0).
sort_table_index(sorted, orig) ==
    IF Position(sorted, orig) = <<>> THEN 0 ELSE Position(sorted, orig)[1]

\* slice::sort_unstable seen row by row: the orders in which the rows of t with
\* their indices in S can end up, as sequences of indices into t.  Rows that
\* are equal can come in any order.
RECURSIVE SortUnstablePerms(_, _)
SortUnstablePerms(t, S) ==
    IF S = {} THEN {<<>>}
    ELSE UNION {{<<i>> \o rest : rest \in SortUnstablePerms(t, S \ {i})} :
                i \in {j \in S : \A k \in S : LexLeq(t[j], t[k])}}

\* The table t with its rows in the order p.
Arranged(t, p) == [k \in 1..Len(p) |-> t[p[k]]]

\* The place the first row of t itself went to in the order p.
SortTableAtOrigin(t, p) == (CHOOSE k \in 1..Len(p) : p[k] = 1) - 1

\* sort_table on a table t of two rows or more that sort_unstable leaves in the
\* order p: the index returned.
sort_table_at(t, p) == sort_table_index(Arranged(t, p), t[1])

\* sort_table: the pairs <<table after the call, returned index>>.
sort_table(data_table_in) ==
    IF Len(data_table_in) = 0 \/ Len(data_table_in) = 1
    THEN {<<data_table_in, 0>>}
    ELSE {<<s, sort_table_index(s, data_table_in[1])>> : s \in SortUnstableOutcomes(data_table_in)}

NoBwt == [st |-> "none", data |-> <<>>, original_index |-> 0]
NoDecoded == [st |-> "none", bytes |-> <<>>]

\* BwtEncoded::new
BwtEncoded_new(data, original_index) ==
    [st |-> "new", data |-> data, original_index |-> original_index]

\* TryFrom taking the first byte of every sorted row instead of the last.
TryFromFirstColumn(data) ==
    IF Len(data) = 0
    THEN {[st |-> "encoded", data |-> <<>>, original_index |-> 0]}
    ELSE {[st |-> "encoded",
           data |-> [i \in 1..Len(data) |-> r[1][i][1]],
           original_index |-> r[2]] : r \in sort_table(get_shifts(data))}

\* The BwtEncoded values TryFrom can return for data.
try_from(data) ==
    IF Len(data) = 0
    THEN {[st |-> "encoded", data |-> <<>>, original_index |-> 0]}
    ELSE {[st |-> "encoded",
           data |-> [i \in 1..Len(data) |-> r[1][i][Len(r[1][i])]],
           original_index |-> r[2]] : r \in sort_table(get_shifts(data))}

\* data_table with column c (0-based) of every row set to the byte data[row].
FillColumn(table, data, c) ==
    [row \in 1..Len(table) |-> [table[row] EXCEPT ![c + 1] = data[row]]]

\* try_into, the loop over the columns n-1 .. 0: the tables it can end with,
\* `cols` columns still to fill.  try_get(row) never fails: row < data.len().
RECURSIVE DecodeColumns(_, _, _)
DecodeColumns(table, data, cols) ==
    IF cols = 0 THEN {table}
    ELSE UNION {DecodeColumns(r[1], data, cols - 1) :
                r \in sort_table(FillColumn(table, data, cols - 1))}

\* The first row of the final table, whatever original_index is.
DecodeRowFirst(t, original_index) ==
    [st |-> "ok", bytes |-> t[1]]

\* Vec::get(original_index) on the final table t, and ok_or(..)?.
DecodeRow(t, original_index) ==
    IF original_index < Len(t)
    THEN [st |-> "ok", bytes |-> t[original_index + 1]]
    ELSE [st |-> "err", bytes |-> <<>>]

\* The Result<Vec<u8>> values TryInto can return for the BwtEncoded e.
try_into(e) ==
    LET data_length == Len(e.data) IN
    IF data_length = 0
    THEN {[st |-> "ok", bytes |-> <<>>]}
    ELSE {DecodeRow(t, e.original_index) :
          t \in DecodeColumns([row \in 1..data_length |-> [c \in 1..data_length |-> 0]],
                              e.data, data_length)}

\* --------------------------------------------------------------------- MTF
\* enum MtfIndex
RunA == [tag |-> "RunA", val |-> 0]
RunB == [tag |-> "RunB", val |-> 0]
Val(i) == [tag |-> "Val", val |-> i]

NoMtf == [st |-> "none", indices |-> <<>>, stack |-> <<>>]
NoMtfOut == [st |-> "none", bytes |-> <<>>]

\* The bytes of S in descending order.
RECURSIVE DescendingSeq(_)
DescendingSeq(S) ==
    IF S = {} THEN <<>>
    ELSE LET m == CHOOSE x \in S : \A y \in S : x >= y
         IN <<m>> \o DescendingSeq(S \ {m})

\* BTreeSet<u8> collected into a Vec: the bytes of S in ascending order.
RECURSIVE AscendingSeq(_)
AscendingSeq(S) ==
    IF S = {} THEN <<>>
    ELSE LET m == CHOOSE x \in S : \A y \in S : x <= y
         IN <<m>> \o AscendingSeq(S \ {m})

\* working_stack[0..=position].rotate_right(1); working_stack[0] = val
MoveToFront(working_stack, position) ==
    [k \in 1..Len(working_stack) |->
        IF k = 1 THEN working_stack[position + 1]
        ELSE IF k <= position + 1 THEN working_stack[k - 1]
        ELSE working_stack[k]]

\* The MTF loop pushing the 1-based position of a byte that is not a repeat.
RECURSIVE MtfLoopOneBased(_, _, _, _)
MtfLoopOneBased(data, i, working_stack, current_byte) ==
    IF i > Len(data) THEN <<>>
    ELSE IF current_byte = <<data[i]>>
    THEN <<0>> \o MtfLoopOneBased(data, i + 1, working_stack, current_byte)
    ELSE LET position == (CHOOSE k \in 1..Len(working_stack) :
                              /\ working_stack[k] = data[i]
                              /\ \A j \in 1..(k - 1) : working_stack[j] # data[i]) - 1
             moved == IF position > 0 THEN MoveToFront(working_stack, position)
                      ELSE working_stack
         IN <<(position + 1) % 256>> \o MtfLoopOneBased(data, i + 1, moved, <<data[i]>>)

\* encode, the MTF loop from byte i (1-based) on: the mtf_indices pushed.
\* current_byte is an Option: <<>> or <<byte>>.
RECURSIVE MtfLoop(_, _, _, _)
MtfLoop(data, i, working_stack, current_byte) ==
    IF i > Len(data) THEN <<>>
    ELSE IF current_byte = <<data[i]>>
    THEN <<0>> \o MtfLoop(data, i + 1, working_stack, current_byte)
    ELSE LET position == (CHOOSE k \in 1..Len(working_stack) :
                              /\ working_stack[k] = data[i]
                              /\ \A j \in 1..(k - 1) : working_stack[j] # data[i]) - 1
             moved == IF position > 0 THEN MoveToFront(working_stack, position)
                      ELSE working_stack
         IN <<position % 256>> \o MtfLoop(data, i + 1, moved, <<data[i]>>)

\* emit_run with RunB pushed for an odd run_length and RunA for an even one.
RECURSIVE EmitRunSwapped(_)
EmitRunSwapped(run_length) ==
    IF run_length > 0
    THEN IF run_length % 2 = 1
         THEN <<RunB>> \o EmitRunSwapped((run_length - 1) \div 2)
         ELSE <<RunA>> \o EmitRunSwapped((run_length - 2) \div 2)
    ELSE <<>>

\* emit_run: the RunA/RunB symbols pushed for run_length.
RECURSIVE emit_run(_)
emit_run(run_length) ==
    IF run_length > 0
    THEN IF run_length % 2 = 1
         THEN <<RunA>> \o emit_run((run_length - 1) \div 2)
         ELSE <<RunB>> \o emit_run((run_length - 2) \div 2)
    ELSE <<>>

\* The length of the first chunk of chunk_by(|a, b| both zero or both nonzero).
RECURSIVE ChunkLen(_)
ChunkLen(s) ==
    IF Len(s) <= 1 THEN Len(s)
    ELSE IF (s[1] = 0 /\ s[2] = 0) \/ (s[1] # 0 /\ s[2] # 0)
    THEN 1 + ChunkLen(Tail(s))
    ELSE 1

\* encode, the RLE2 pass over mtf_indices.
RECURSIVE Rle2(_)
Rle2(mtf_indices) ==
    IF mtf_indices = <<>> THEN <<>>
    ELSE LET n == ChunkLen(mtf_indices)
             rest == SubSeq(mtf_indices, n + 1, Len(mtf_indices))
         IN IF mtf_indices[1] = 0
            THEN emit_run(n) \o Rle2(rest)
            ELSE [k \in 1..n |-> Val(mtf_indices[k])] \o Rle2(rest)

\* MtfTransform::encode
MtfTransform_encode(data) ==
    IF Len(data) = 0
    THEN [st |-> "encoded", indices |-> <<>>, stack |-> <<>>]
    ELSE LET stack == AscendingSeq(Range(data))
         IN [st |-> "encoded",
             indices |-> Rle2(MtfLoop(data, 1, stack, <<>>)),
             stack |-> stack]

Zeros(n) == [k \in 1..n |-> 0]

\* decode, the RLE2 pass from symbol i (1-based) on: the mtf_indices it appends.
\* run_length and power are usize; a run of 2^63 symbols is beyond every input
\* here, so the shifts do not overflow.
RECURSIVE Rle2DecodeSame(_, _, _, _)
Rle2DecodeSame(indices, i, run_length, power) ==
    IF i > Len(indices) THEN Zeros(run_length)
    ELSE IF indices[i].tag = "RunA"
    THEN Rle2DecodeSame(indices, i + 1, run_length + power, power * 2)
    ELSE IF indices[i].tag = "RunB"
    THEN Rle2DecodeSame(indices, i + 1, run_length + power, power * 2)
    ELSE Zeros(run_length) \o <<indices[i].val>> \o Rle2DecodeSame(indices, i + 1, 0, 1)

RECURSIVE Rle2Decode(_, _, _, _)
Rle2Decode(indices, i, run_length, power) ==
    IF i > Len(indices) THEN Zeros(run_length)
    ELSE IF indices[i].tag = "RunA"
    THEN Rle2Decode(indices, i + 1, run_length + power, power * 2)
    ELSE IF indices[i].tag = "RunB"
    THEN Rle2Decode(indices, i + 1, run_length + power * 2, power * 2)
    ELSE IF run_length > 0
    THEN Zeros(run_length) \o <<indices[i].val>> \o Rle2Decode(indices, i + 1, 0, 1)
    ELSE <<indices[i].val>> \o Rle2Decode(indices, i + 1, run_length, power)

\* decode, the MTF pass from index i (1-based) of mtf_indices on, `result` the
\* bytes pushed so far.  working_stack.get(idx).expect(..) panics when idx is
\* not below the length of the stack.
RECURSIVE MtfDecodeLoop(_, _, _, _)
MtfDecodeLoop(mtf_indices, i, working_stack, result) ==
    IF i > Len(mtf_indices) THEN [st |-> "ok", bytes |-> result]
    ELSE LET idx == mtf_indices[i] IN
         IF idx >= Len(working_stack)
         THEN [st |-> "panic", bytes |-> <<>>]
         ELSE MtfDecodeLoop(mtf_indices, i + 1,
                            IF idx > 0 THEN MoveToFront(working_stack, idx) ELSE working_stack,
                            Append(result, working_stack[idx + 1]))

\* MtfTransform::decode
MtfTransform_decode(m) ==
    IF Len(m.indices) = 0
    THEN [st |-> "ok", bytes |-> <<>>]
    ELSE MtfDecodeLoop(Rle2Decode(m.indices, 1, 0, 1), 1, m.stack, <<>>)

\* ----------------------------------------------------------------- Huffman
MAX_HUFFMAN_LEN == 20

\* FrequencyMap::build, the key of one MtfIndex.
SymbolOf(idx) ==
    IF idx.tag = "RunA" THEN 0
    ELSE IF idx.tag = "RunB" THEN 1
    ELSE idx.val + 1

\* HashMap::insert
Insert(map, key, value) ==
    [k \in DOMAIN map \cup {key} |-> IF k = key THEN value ELSE map[k]]

\* FrequencyMap::build with EndOfBlock put at the key of the last stack index.
FrequencyMapEobOnLastVal(m) ==
    LET symbols == [k \in DOMAIN m.indices |-> SymbolOf(m.indices[k])]
        counted == [s \in {0, 1} \cup Range(symbols) |->
                       Cardinality({k \in DOMAIN symbols : symbols[k] = s})]
        eob == IF Len(m.stack) > 1 THEN Len(m.stack) ELSE 1
    IN Insert(counted, eob, 1)

\* FrequencyMap::build without the two inserts of RunA and RunB.
FrequencyMapNoRuns(m) ==
    LET symbols == [k \in DOMAIN m.indices |-> SymbolOf(m.indices[k])]
        counted == [s \in Range(symbols) |->
                       Cardinality({k \in DOMAIN symbols : symbols[k] = s})]
        eob == (IF Len(m.stack) > 1 THEN Len(m.stack) ELSE 1) + 1
    IN Insert(counted, eob, 1)

\* FrequencyMap::build.  The loop `*entry(sym).or_insert(0) += 1` over the
\* symbols leaves, on top of the keys 0 and 1, one key per symbol that occurs,
\* with the number of its occurrences; it is written here as that count.
FrequencyMap_build(m) ==
    LET symbols == [k \in DOMAIN m.indices |-> SymbolOf(m.indices[k])]
        counted == [s \in {0, 1} \cup Range(symbols) |->
                       Cardinality({k \in DOMAIN symbols : symbols[k] = s})]
        eob == (IF Len(m.stack) > 1 THEN Len(m.stack) ELSE 1) + 1
    IN Insert(counted, eob, 1)

\* struct Node
new_leaf(freq, symbol) == [kind |-> "leaf", freq |-> freq, symbol |-> symbol]

new_branch(left, right) ==
    [kind |-> "branch", freq |-> left.freq + right.freq, left |-> left, right |-> right]

\* get_depth counting a leaf as depth 0.
RECURSIVE GetDepthLeafZero(_)
GetDepthLeafZero(node) ==
    IF node.kind = "leaf" THEN 0
    ELSE 1 + (IF GetDepthLeafZero(node.left) >= GetDepthLeafZero(node.right)
              THEN GetDepthLeafZero(node.left) ELSE GetDepthLeafZero(node.right))

\* Node::get_depth (a node has both children or none: new_leaf, new_branch).
RECURSIVE get_depth(_)
get_depth(node) ==
    IF node.kind = "leaf" THEN 1
    ELSE 1 + (IF get_depth(node.left) >= get_depth(node.right)
              THEN get_depth(node.left) ELSE get_depth(node.right))

\* freq_list.sort_by(|a, b| b.freq.cmp(&a.freq)): a stable sort, descending by
\* freq.  InsertDesc puts x behind every node whose freq is not smaller.
InsertDesc(sorted, x) ==
    LET p == Cardinality({k \in 1..Len(sorted) : sorted[k].freq >= x.freq})
    IN SubSeq(sorted, 1, p) \o <<x>> \o SubSeq(sorted, p + 1, Len(sorted))

RECURSIVE SortFrom(_, _, _)
SortFrom(list, i, sorted) ==
    IF i > Len(list) THEN sorted
    ELSE SortFrom(list, i + 1, InsertDesc(sorted, list[i]))

sort_by_freq_desc(list) == SortFrom(list, 1, <<>>)

\* build_tree, lines 139-145: one leaf per entry of freq_map, pushed in the
\* iteration order of the HashMap, which is unspecified, then the stable sort.
\* The stable sort keeps the iteration order among leaves of equal freq and
\* nothing else of it, so the lists the sort can leave are the arrangements of
\* the leaves that are descending by freq: any leaf of largest freq first.
RECURSIVE InitialFreqLists(_)
InitialFreqLists(fm) ==
    IF DOMAIN fm = {} THEN {<<>>}
    ELSE UNION {{<<new_leaf(fm[s], s)>> \o rest :
                    rest \in InitialFreqLists([k \in DOMAIN fm \ {s} |-> fm[k]])} :
                s \in {t \in DOMAIN fm : \A u \in DOMAIN fm : fm[t] >= fm[u]}}

\* One pass of the while loop taking the two nodes at the front of the list.
MergeHighest(list) ==
    LET n == Len(list)
        left_node == list[1]
        right_node == list[2]
    IN sort_by_freq_desc(Append(SubSeq(list, 3, n), new_branch(left_node, right_node)))

\* build_tree, one pass of the while loop (lines 149-153).
MergeLowest(list) ==
    LET n == Len(list)
        left_node == list[n]
        right_node == list[n - 1]
    IN sort_by_freq_desc(Append(SubSeq(list, 1, n - 2), new_branch(left_node, right_node)))

\* build_tree, the loop `while freq_list.len() != 1` run to its end on the
\* sorted list, and the node freq_list.pop() then returns.
RECURSIVE BuildTreeFrom(_)
BuildTreeFrom(list) ==
    IF Len(list) = 1 THEN list[1] ELSE BuildTreeFrom(MergeLowest(list))

\* get_codes with the same bit pushed for the left and the right branch.
RECURSIVE GetCodesSameBit(_, _, _)
GetCodesSameBit(node, current_symbol_code, code_table) ==
    IF node.kind = "leaf"
    THEN Insert(code_table, node.symbol, current_symbol_code)
    ELSE GetCodesSameBit(node.right, Append(current_symbol_code, TRUE),
                         GetCodesSameBit(node.left, Append(current_symbol_code, TRUE), code_table))

\* get_codes: code_table after the traversal of node.
RECURSIVE get_codes(_, _, _)
get_codes(node, current_symbol_code, code_table) ==
    IF node.kind = "leaf"
    THEN Insert(code_table, node.symbol, current_symbol_code)
    ELSE get_codes(node.right, Append(current_symbol_code, TRUE),
                   get_codes(node.left, Append(current_symbol_code, FALSE), code_table))

NoHuff == [st |-> "none", root |-> <<>>, code_table |-> <<>>]

\* new without the check of the depth.
NeverRebalance(root) == FALSE

\* HuffmanEncoder::new from line 118 on, root the tree build_tree returned:
\* a tree deeper than the maximum enters rebalance, which is todo!() and panics.
NeedsRebalance(root) == get_depth(root) > MAX_HUFFMAN_LEN

HuffmanEncoder_finish(root) ==
    IF NeedsRebalance(root)
    THEN [st |-> "panic", root |-> <<>>, code_table |-> <<>>]
    ELSE [st |-> "ok", root |-> <<root>>, code_table |-> get_codes(root, <<>>, <<>>)]

\* --------------------------------------------------------------------- RLE
NoRle == [st |-> "none", seq |-> <<>>]
NoRleOut == [st |-> "none", bytes |-> <<>>]
NoRunOut == [st |-> "none", syms |-> <<>>]

\* std::iter::repeat(value).take(n)
Repeat(value, n) == [k \in 1..n |-> value]

\* The length of the chunk of chunk_by(|a, b| a == b) that starts at byte i
\* (1-based) of data.
RleChunkLen(data, i) ==
    IF \E j \in (i + 1)..Len(data) : data[j] # data[i]
    THEN (CHOOSE j \in (i + 1)..Len(data) :
              data[j] # data[i] /\ \A k \in i..(j - 1) : data[k] = data[i]) - i
    ELSE Len(data) - i + 1

\* The piece of a chunk taken whole, however long the chunk is.
RunPieceUncapped(remaining_length) == remaining_length

\* remaining_length.min(255)
RunPiece(remaining_length) ==
    IF remaining_length < 255 THEN remaining_length ELSE 255

\* encode, the while loop over one chunk: the bytes pushed for remaining_length
\* bytes of value.  (run_length - 4) as u8 keeps the low 8 bits.
RECURSIVE RleEncodeChunk(_, _)
RleEncodeChunk(value, remaining_length) ==
    IF remaining_length = 0 THEN <<>>
    ELSE LET run_length == RunPiece(remaining_length)
         IN (IF run_length < 4
             THEN Repeat(value, run_length)
             ELSE Repeat(value, 4) \o <<(run_length - 4) % 256>>)
            \o RleEncodeChunk(value, remaining_length - run_length)

\* encode, the loop over the chunks from byte i (1-based) on.
RECURSIVE RleEncodeFrom(_, _)
RleEncodeFrom(data, i) ==
    IF i > Len(data) THEN <<>>
    ELSE LET n == RleChunkLen(data, i)
         IN RleEncodeChunk(data[i], n) \o RleEncodeFrom(data, i + n)

\* RleSequence::encode
RleSequence_encode(data) == [st |-> "encoded", seq |-> RleEncodeFrom(data, 1)]

\* impl From<&[u8]> for RleSequence
RleSequence_from(data) == [st |-> "from", seq |-> data]

\* decode, the while loop from byte i (1-based) of the sequence on: the bytes
\* it appends to data.  last_byte is an Option: <<>> or <<byte>>.
RECURSIVE RleDecodeLoop(_, _, _, _)
RleDecodeLoop(seq, i, consecutive_count, last_byte) ==
    IF i > Len(seq) THEN <<>>
    ELSE LET byte == seq[i]
             count == IF <<byte>> = last_byte THEN consecutive_count + 1 ELSE 1
         IN IF count = 4
            THEN IF i + 1 <= Len(seq)
                 THEN <<byte>> \o Repeat(byte, seq[i + 1])
                      \o RleDecodeLoop(seq, i + 2, 0, <<>>)
                 ELSE <<byte>>
            ELSE <<byte>> \o RleDecodeLoop(seq, i + 1, count, <<byte>>)

\* RleSequence::decode
RleSequence_decode(r) == [st |-> "ok", bytes |-> RleDecodeLoop(r.seq, 1, 0, <<>>)]

\* ------------------------------------------------------------------ inputs
\* MtfTransform values built field by field, as the tests' get_mtf does.
MtfSymbols == {RunA, RunB} \cup {Val(i) : i \in Alphabet}

MadeMtfs ==
    {[st |-> "made", indices |-> ix, stack |-> AscendingSeq(S)] :
        ix \in SeqsUpTo(MtfSymbols, MaxSyms), S \in SUBSET Alphabet}

\* <<F(n), F(n+1)>> of the Fibonacci numbers F(1) = F(2) = 1.
RECURSIVE FibPair(_)
FibPair(n) ==
    IF n = 1 THEN <<1, 1>>
    ELSE LET p == FibPair(n - 1) IN <<p[2], p[1] + p[2]>>

Fib(n) == FibPair(n)[1]

\* The MTF result of a block over the n bytes 0..n-1 without repeats, in which
\* Val(i) occurs F(i+1) times for i = 1..n-1, larger indices first.  Every
\* stream of nonzero indices below n that brings each byte of the stack to the
\* front once is the encoding of a block (here the first n symbols Val(n-1) do).
SkewMtf(n) ==
    LET fib == [i \in 1..(n + 2) |-> Fib(i)]
        \* the number of symbols with an index larger than i
        above == [i \in 1..(n - 1) |-> fib[n + 2] - fib[i + 3]]
    IN [st |-> "encoded",
        indices |-> [k \in 1..(fib[n + 2] - 2) |->
                        Val(CHOOSE i \in 1..(n - 1) : above[i] < k /\ k <= above[i] + fib[i + 1])],
        stack |-> [i \in 1..n |-> i - 1]]

SkewMtfs == {SkewMtf(n) : n \in (MaxSkew - 2)..MaxSkew}

\* The block b"BANANA" of the documented example.
Banana == <<66, 65, 78, 65, 78, 65>>
ExampleBlocks == {Banana}

\* Blocks of two runs: run lengths around the threshold 4 and the piece size 255.
RunLengths == {0, 3, 4, 5, 6, 255, 256, 259, 260}
\* The byte 251 is the length byte of a full piece of 255.
RunBytes == Alphabet \cup {251}
RunBlocks == {Repeat(a, n) \o Repeat(b, m) : a \in RunBytes, b \in RunBytes,
                                             n \in RunLengths, m \in RunLengths}

\* Trees handed to get_codes directly: a single leaf, or a branch of two leaves.
SmallLeaves == {new_leaf(f, s) : f \in 0..MaxSyms, s \in 0..(MaxByte + 2)}
SmallTrees == SmallLeaves \cup {new_branch(l, r) : l \in SmallLeaves, r \in SmallLeaves}

\* ------------------------------------------------------------- BWT actions
InitBwt ==
    /\ \/ block \in Blocks \cup ExampleBlocks /\ bwt = NoBwt
       \/ /\ block = <<>>
          /\ \E data \in Blocks : \E i \in 0..(Len(data) + 1) : bwt = BwtEncoded_new(data, i)
    /\ decoded = NoDecoded
    /\ mtf = NoMtf
    /\ mtf_out = NoMtfOut
    /\ freq_map = <<>>
    /\ freq_list = <<>>
    /\ huff = NoHuff
    /\ rle = NoRle
    /\ rle_out = NoRleOut
    /\ run_input = 0
    /\ run_out = NoRunOut

\* BwtEncoded::try_from(&block)
BwtEncode ==
    /\ bwt.st = "none"
    /\ \E e \in try_from(block) : bwt' = e
    /\ UNCHANGED <<block, decoded, mtf, mtf_out, freq_map, freq_list, huff,
                   rle, rle_out, run_input, run_out>>

\* bwt.try_into()
BwtDecode ==
    /\ bwt.st # "none"
    /\ decoded.st = "none"
    /\ \E r \in try_into(bwt) : decoded' = r
    /\ UNCHANGED <<block, bwt, mtf, mtf_out, freq_map, freq_list, huff,
                   rle, rle_out, run_input, run_out>>

NextBwt == BwtEncode \/ BwtDecode

SpecBwt == InitBwt /\ [][NextBwt]_vars

\* ------------------------------------------------------------- MTF actions
InitMtf ==
    /\ \/ block \in Blocks /\ mtf = NoMtf
       \/ block = <<>> /\ mtf \in MadeMtfs
    /\ bwt = NoBwt
    /\ decoded = NoDecoded
    /\ mtf_out = NoMtfOut
    /\ freq_map = <<>>
    /\ freq_list = <<>>
    /\ huff = NoHuff
    /\ rle = NoRle
    /\ rle_out = NoRleOut
    /\ run_input = 0
    /\ run_out = NoRunOut

\* MtfTransform::encode(&block)
MtfEncode ==
    /\ mtf.st = "none"
    /\ mtf' = MtfTransform_encode(block)
    /\ UNCHANGED <<block, bwt, decoded, mtf_out, freq_map, freq_list, huff,
                   rle, rle_out, run_input, run_out>>

\* mtf.decode()
MtfDecode ==
    /\ mtf.st # "none"
    /\ mtf_out.st = "none"
    /\ mtf_out' = MtfTransform_decode(mtf)
    /\ UNCHANGED <<block, bwt, decoded, mtf, freq_map, freq_list, huff,
                   rle, rle_out, run_input, run_out>>

NextMtf == MtfEncode \/ MtfDecode

SpecMtf == InitMtf /\ [][NextMtf]_vars

\* --------------------------------------------------------- Huffman actions
InitHuff ==
    /\ \/ block \in Blocks /\ mtf = NoMtf
       \/ block = <<>> /\ mtf \in SkewMtfs
    /\ bwt = NoBwt
    /\ decoded = NoDecoded
    /\ mtf_out = NoMtfOut
    /\ freq_map = <<>>
    /\ freq_list = <<>>
    /\ huff = NoHuff
    /\ rle = NoRle
    /\ rle_out = NoRleOut
    /\ run_input = 0
    /\ run_out = NoRunOut

\* HuffmanEncoder::new(&mtf) enters build_tree: the frequency map, the leaves
\* and the first sort (lines 138-145).
BuildTreeStart ==
    /\ mtf.st # "none"
    /\ huff.st = "none"
    /\ freq_map' = FrequencyMap_build(mtf)
    /\ freq_list' \in InitialFreqLists(freq_map')
    /\ huff' = [huff EXCEPT !.st = "building"]
    /\ UNCHANGED <<block, bwt, decoded, mtf, mtf_out,
                   rle, rle_out, run_input, run_out>>

\* build_tree, one pass of `while freq_list.len() != 1`.  The frequency map has
\* the keys 0, 1 and EndOfBlock at least, so the pops find their nodes.
MergeStep ==
    /\ huff.st = "building"
    /\ Len(freq_list) # 1
    /\ freq_list' = MergeLowest(freq_list)
    /\ UNCHANGED <<block, bwt, decoded, mtf, mtf_out, freq_map, huff,
                   rle, rle_out, run_input, run_out>>

\* build_tree returns freq_list.pop(); new checks the depth and builds the codes.
NewFinish ==
    /\ huff.st = "building"
    /\ Len(freq_list) = 1
    /\ huff' = HuffmanEncoder_finish(freq_list[1])
    /\ freq_list' = <<>>
    /\ UNCHANGED <<block, bwt, decoded, mtf, mtf_out, freq_map,
                   rle, rle_out, run_input, run_out>>

NextHuff == MtfEncode \/ BuildTreeStart \/ MergeStep \/ NewFinish

SpecHuff == InitHuff /\ [][NextHuff]_vars

\* ------------------------------------------------------------- RLE actions
InitRle ==
    /\ \/ block \in Blocks \cup RunBlocks /\ rle = NoRle
       \/ block = <<>> /\ \E data \in Blocks : rle = RleSequence_from(data)
    /\ bwt = NoBwt
    /\ decoded = NoDecoded
    /\ mtf = NoMtf
    /\ mtf_out = NoMtfOut
    /\ freq_map = <<>>
    /\ freq_list = <<>>
    /\ huff = NoHuff
    /\ rle_out = NoRleOut
    /\ run_input = 0
    /\ run_out = NoRunOut

\* RleSequence::encode(&block)
RleEncode ==
    /\ rle.st = "none"
    /\ rle' = RleSequence_encode(block)
    /\ UNCHANGED <<block, bwt, decoded, mtf, mtf_out, freq_map, freq_list, huff,
                   rle_out, run_input, run_out>>

\* rle.decode()
RleDecode ==
    /\ rle.st # "none"
    /\ rle_out.st = "none"
    /\ rle_out' = RleSequence_decode(rle)
    /\ UNCHANGED <<block, bwt, decoded, mtf, mtf_out, freq_map, freq_list, huff,
                   rle, run_input, run_out>>

NextRle == RleEncode \/ RleDecode

SpecRle == InitRle /\ [][NextRle]_vars

\* -------------------------------------------------------- emit_run actions
\* encode calls emit_run with the length of a chunk of zeros, 1 at least.
InitRun ==
    /\ run_input \in 1..MaxRun
    /\ run_out = NoRunOut
    /\ block = <<>>
    /\ bwt = NoBwt
    /\ decoded = NoDecoded
    /\ mtf = NoMtf
    /\ mtf_out = NoMtfOut
    /\ freq_map = <<>>
    /\ freq_list = <<>>
    /\ huff = NoHuff
    /\ rle = NoRle
    /\ rle_out = NoRleOut

\* emit_run(run_input, &mut out) on an empty out
EmitRun ==
    /\ run_out.st = "none"
    /\ run_out' = [st |-> "done", syms |-> emit_run(run_input)]
    /\ UNCHANGED <<block, bwt, decoded, mtf, mtf_out, freq_map, freq_list, huff,
                   rle, rle_out, run_input>>

NextRun == EmitRun

SpecRun == InitRun /\ [][NextRun]_vars

\* ------------------------------------------------------- get_codes actions
\* A caller that holds a tree and an empty code table.
InitCodes ==
    /\ \E t \in SmallTrees : huff = [st |-> "tree", root |-> <<t>>, code_table |-> <<>>]
    /\ block = <<>>
    /\ bwt = NoBwt
    /\ decoded = NoDecoded
    /\ mtf = NoMtf
    /\ mtf_out = NoMtfOut
    /\ freq_map = <<>>
    /\ freq_list = <<>>
    /\ rle = NoRle
    /\ rle_out = NoRleOut
    /\ run_input = 0
    /\ run_out = NoRunOut

\* get_codes(&root, &mut SymbolCode::new(), &mut code_table) as in new
GetCodes ==
    /\ huff.st = "tree"
    /\ huff' = [st |-> "coded", root |-> huff.root,
                code_table |-> get_codes(huff.root[1], <<>>, <<>>)]
    /\ UNCHANGED <<block, bwt, decoded, mtf, mtf_out, freq_map, freq_list,
                   rle, rle_out, run_input, run_out>>

NextCodes == GetCodes

SpecCodes == InitCodes /\ [][NextCodes]_vars

\* ----------------------------------------------------------- BWT claims
\* The rotation of b that starts at index k.
Rot(b, k) == SubSeq(b, k + 1, Len(b)) \o SubSeq(b, 1, k)

\* The number of elements of s equal to x.
Count(s, x) == Cardinality({i \in DOMAIN s : s[i] = x})

\* C1: decoding the BwtEncoded that encoding a block returned gives the block
\* back, as an Ok value.
C1_BwtRoundTrip ==
    (bwt.st = "encoded" /\ decoded.st # "none")
        => decoded = [st |-> "ok", bytes |-> block]

\* The round trip of the periodic block 0101.
C1_Witness ==
    /\ bwt.st = "encoded"
    /\ block = <<0, 1, 0, 1>>
    /\ decoded.st = "ok"

\* C7: decoding a BwtEncoded whose original_index is not below the length of
\* its data returns an error, the defined empty result {empty, 0} apart; also
\* for empty data with a nonzero original_index.
C7_MalformedIndexIsError ==
    (/\ bwt.st = "new"
     /\ bwt.original_index >= Len(bwt.data)
     /\ ~(bwt.data = <<>> /\ bwt.original_index = 0)
     /\ decoded.st # "none")
        => decoded.st = "err"

\* C8: encode of a non-empty block of length n returns a permutation of the
\* block and an original_index below n at which the sorted rotations hold the
\* block; encode of the empty block returns empty data and original_index 0.
C8_BwtEncodeInvariant ==
    bwt.st = "encoded" =>
        IF block = <<>>
        THEN bwt.data = <<>> /\ bwt.original_index = 0
        ELSE LET n == Len(block)
                 less == Cardinality({k \in 0..(n - 1) : LexLess(Rot(block, k), block)})
                 leq == Cardinality({k \in 0..(n - 1) : LexLeq(Rot(block, k), block)})
             IN /\ Len(bwt.data) = n
                /\ \A x \in Byte : Count(bwt.data, x) = Count(block, x)
                /\ bwt.original_index \in 0..(n - 1)
                \* the rows equal to the block are the rows less .. leq - 1
                /\ less <= bwt.original_index
                /\ bwt.original_index < leq

\* An encoded block of three bytes or more that is not the first sorted rotation.
C8_Witness ==
    /\ bwt.st = "encoded"
    /\ Len(block) >= 3
    /\ bwt.original_index > 0
    /\ bwt.data # block

\* ----------------------------------------------------------- MTF claims
\* C2: decode of the MtfTransform that encode returned for a block gives the
\* block back.
C2_MtfRoundTrip ==
    (mtf.st = "encoded" /\ mtf_out.st # "none")
        => mtf_out = [st |-> "ok", bytes |-> block]

\* The round trip of a block with a run at its start and a run at its end.
C2_Witness ==
    /\ mtf.st = "encoded"
    /\ block = <<0, 0, 1, 1>>
    /\ mtf.indices = <<RunB, Val(1), RunA>>
    /\ mtf_out.st = "ok"

\* The symbol stream holds a Val(i) with no stack entry i.
HasValOutOfStack(m) ==
    \E k \in DOMAIN m.indices :
        m.indices[k].tag = "Val" /\ m.indices[k].val >= Len(m.stack)

\* C6: decode of a symbol stream with a Val(i), i not below the length of the
\* stack, ends with a typed failure: no abort, no bytes.
C6_BadIndexIsTypedFailure ==
    (HasValOutOfStack(mtf) /\ mtf_out.st # "none") => mtf_out.st = "err"

\* ------------------------------------------------------- Huffman claims
IsPrefix(a, b) == Len(a) <= Len(b) /\ SubSeq(b, 1, Len(a)) = a

\* C3: in a code table new produced no symbol's code is a prefix of another
\* symbol's code, and the symbols with a code are those of the frequency table.
C3_PrefixFree ==
    huff.st = "ok" =>
        /\ DOMAIN huff.code_table = DOMAIN freq_map
        /\ \A s, t \in DOMAIN huff.code_table :
               s # t => ~IsPrefix(huff.code_table[s], huff.code_table[t])

\* A code table of five symbols or more.
C3_Witness ==
    /\ huff.st = "ok"
    /\ Cardinality(DOMAIN huff.code_table) >= 5

\* C4: every code of a code table new produced has at most 20 bits.
C4_MaxCodeLength ==
    huff.st = "ok" =>
        \A s \in DOMAIN huff.code_table : Len(huff.code_table[s]) <= MAX_HUFFMAN_LEN

\* A code table with a code of 19 bits, the longest of a tree of depth 20.
C4_Witness ==
    /\ huff.st = "ok"
    /\ \E s \in DOMAIN huff.code_table : Len(huff.code_table[s]) = MAX_HUFFMAN_LEN - 1

\* C5: when the tree is deeper than the maximum, new completes: with a code
\* table of codes of at most 20 bits, or with a typed failure.
C5_DeepTreeCompletes ==
    [][(/\ huff.st = "building"
        /\ Len(freq_list) = 1
        /\ get_depth(freq_list[1]) > MAX_HUFFMAN_LEN
        /\ huff'.st # "building")
          => \/ huff'.st = "err"
             \/ /\ huff'.st = "ok"
                /\ \A s \in DOMAIN huff'.code_table :
                       Len(huff'.code_table[s]) <= MAX_HUFFMAN_LEN]_vars

Max(a, b) == IF a >= b THEN a ELSE b

\* C9: the frequency table of an MTF result has max(stack.len(), 1) + 2 entries.
C9_FrequencyTableSize ==
    (mtf.st = "encoded" /\ huff.st # "none")
        => Cardinality(DOMAIN freq_map) = Max(Len(mtf.stack), 1) + 2

C11_StackSortedDistinct ==
    mtf.st = "encoded" =>
        /\ \A i \in 1..(Len(mtf.stack) - 1) : mtf.stack[i] < mtf.stack[i + 1]
        /\ Range(mtf.stack) = Range(block)

\* The stack of a block whose bytes are out of order and repeat.
C11_Witness ==
    /\ mtf.st = "encoded"
    /\ block = <<2, 0, 2, 1>>
    /\ mtf.stack = <<0, 1, 2>>

\* C12: every Val(i) encode returns has i below the length of the stack.
C12_ValBelowStackLen ==
    mtf.st = "encoded" =>
        \A k \in DOMAIN mtf.indices :
            mtf.indices[k].tag = "Val" => mtf.indices[k].val < Len(mtf.stack)

\* An encoding with the largest index the stack allows.
C12_Witness ==
    /\ mtf.st = "encoded"
    /\ Len(mtf.stack) = 3
    /\ \E k \in DOMAIN mtf.indices : mtf.indices[k] = Val(2)


\* C13, as stated: BWT encode of the block "BANANA" returns data "BNNAAA" and
\* original_index 3.
C13_BananaIsBNNAAA ==
    bwt.st = "encoded" /\ block = Banana =>
        bwt.data = <<66, 78, 78, 65, 65, 65>> /\ bwt.original_index = 3

\* C13: BWT encode of the block "BANANA" returns data "NNBAAA", the last column
\* of the sorted rotations, and original_index 3.
C13_BananaIsNNBAAA ==
    bwt.st = "encoded" /\ block = Banana =>
        bwt.data = <<78, 78, 66, 65, 65, 65>> /\ bwt.original_index = 3

C13_Witness == bwt.st = "encoded" /\ block = Banana /\ decoded.st = "none"


\* C14: decoding the RleSequence that encode made of a block returns the block.
C14_RleRoundTrip ==
    rle.st = "encoded" /\ rle_out.st = "ok" => rle_out.bytes = block

\* A run longer than 255 split into several pieces, the last one a run of
\* exactly 4, and its length byte 0 equal to the byte of the run.
C14_Witness ==
    /\ rle.st = "encoded" /\ rle_out.st = "ok"
    /\ block = Repeat(0, 259)
    /\ rle.seq = <<0, 0, 0, 0, 251, 0, 0, 0, 0, 0>>


\* C15: for a given frequency table build_tree returns one tree, whatever the
\* order in which the frequency map yields its entries; for the empty MTF
\* result the zero-frequency leaves are placed symbol 0 left, symbol 1 right.
C15_TreeIsDeterministic ==
    huff.st = "ok" /\ mtf.st = "encoded" =>
        /\ \A l \in InitialFreqLists(freq_map) : BuildTreeFrom(l) = huff.root[1]
        /\ mtf.indices = <<>> =>
               /\ huff.root[1].left.left.symbol = 0
               /\ huff.root[1].left.right.symbol = 1


\* The list without its elements i and j (i # j).
WithoutTwo(list, i, j) ==
    IF i < j THEN RemoveAt(RemoveAt(list, j), i) ELSE RemoveAt(RemoveAt(list, i), j)

\* C16: a merge step of build_tree removes two nodes of lowest frequency from
\* the list (no node left has a smaller frequency than either), puts a branch
\* over them whose frequency is their sum, keeps every other node, and
\* build_tree returns only when exactly one node remains, that node.
C16_MergeTakesTwoLowest ==
    [][/\ (huff.st = "building" /\ huff'.st = "building") =>
            /\ Len(freq_list) >= 2
            /\ Len(freq_list') = Len(freq_list) - 1
            /\ \E p \in 1..Len(freq_list') : \E i, j \in 1..Len(freq_list) :
                   /\ i # j
                   /\ freq_list'[p].kind = "branch"
                   /\ freq_list'[p].left = freq_list[i]
                   /\ freq_list'[p].right = freq_list[j]
                   /\ freq_list'[p].freq = freq_list[i].freq + freq_list[j].freq
                   /\ RemoveAt(freq_list', p) = WithoutTwo(freq_list, i, j)
                   /\ \A k \in 1..Len(freq_list) \ {i, j} :
                          /\ freq_list[k].freq >= freq_list[i].freq
                          /\ freq_list[k].freq >= freq_list[j].freq
       /\ (huff.st = "building" /\ huff'.st # "building") =>
            /\ Len(freq_list) = 1
            /\ huff'.st = "ok" => huff'.root = <<freq_list[1]>>
      ]_vars

\* In the middle of the merging: a branch made, and a tie between a leaf and a
\* branch among the nodes still to merge.
C16_Witness ==
    /\ huff.st = "building"
    /\ Len(freq_list) >= 3
    /\ \E k \in 1..Len(freq_list) : freq_list[k].kind = "branch"
    /\ freq_list[Len(freq_list)].freq = freq_list[Len(freq_list) - 2].freq


\* C17: whatever order the unstable sort leaves the rotations of the block in,
\* equal rotations in any order among themselves, the last column and the
\* returned index are those of the BwtEncoded that encode returned.
C17_EncodeIgnoresTieOrder ==
    bwt.st = "encoded" /\ Len(block) >= 2 =>
        /\ try_from(block) = {bwt}
        /\ \A p \in SortUnstablePerms(get_shifts(block), 1..Len(block)) :
               /\ bwt.data = [i \in 1..Len(block) |->
                                 Arranged(get_shifts(block), p)[i][Len(block)]]
               /\ bwt.original_index = sort_table_at(get_shifts(block), p)

\* A block with equal rotations: two orders at least for the sort to choose from.
C17_Witness ==
    /\ bwt.st = "encoded"
    /\ block = <<0, 1, 0, 1>>
    /\ Cardinality(SortUnstablePerms(get_shifts(block), 1..Len(block))) = 4


RECURSIVE Pow2(_)
Pow2(n) == IF n = 0 THEN 1 ELSE 2 * Pow2(n - 1)

\* C18: for a run length L >= 1 emit_run ends, having pushed at least one symbol
\* and RunA/RunB symbols only, no more than log2(L + 1) of them; the RLE2 pass
\* of decode expands them to exactly L zeros; no other length gets the same
\* symbols.
C18_EmitRunIsExactAndInjective ==
    run_out.st = "done" =>
        /\ run_out.syms # <<>>
        /\ \A k \in DOMAIN run_out.syms : run_out.syms[k] \in {RunA, RunB}
        /\ Pow2(Len(run_out.syms)) <= run_input + 1
        /\ Rle2Decode(run_out.syms, 1, 0, 1) = Zeros(run_input)
        /\ \A other \in 1..MaxRun : other # run_input => emit_run(other) # run_out.syms

\* Run length 4: RunB (2 left over 1), then RunA.
C18_Witness ==
    run_out.st = "done" /\ run_input = 4 /\ run_out.syms = <<RunB, RunA>>


\* The sum of the freq of the nodes of list.
RECURSIVE SumFreq(_)
SumFreq(list) == IF list = <<>> THEN 0 ELSE list[1].freq + SumFreq(Tail(list))

\* C19: for an MTF result that encode produced, the frequencies in build_tree
\* add up to the number of its symbols plus 1 at every step, and so does the
\* frequency of the root: EndOfBlock counts once, at a key no symbol has.
C19_RootFreqIsSymbolsPlusOne ==
    mtf.st = "encoded" =>
        /\ huff.st = "building" => SumFreq(freq_list) = Len(mtf.indices) + 1
        /\ huff.st = "ok" => huff.root[1].freq = Len(mtf.indices) + 1
        /\ huff.st \in {"building", "ok"} =>
               \A s \in DOMAIN freq_map : s <= Max(Len(mtf.stack), 1) + 1

\* A block whose last stack index occurs as a symbol, next to EndOfBlock's key.
C19_Witness ==
    /\ mtf.st = "encoded" /\ huff.st = "ok"
    /\ Len(mtf.stack) = 3
    /\ \E k \in DOMAIN mtf.indices : mtf.indices[k] = Val(2)
    /\ huff.root[1].freq = Len(mtf.indices) + 1


\* C20: get_codes on a tree whose root is a single leaf gives the symbol of
\* that leaf a code of exactly one bit.
C20_SingleLeafGetsOneBit ==
    huff.st = "coded" /\ huff.root[1].kind = "leaf" =>
        /\ huff.root[1].symbol \in DOMAIN huff.code_table
        /\ Len(huff.code_table[huff.root[1].symbol]) = 1


\* The length of the longest code of a code table.
LongestCode(code_table) ==
    CHOOSE n \in {Len(code_table[s]) : s \in DOMAIN code_table} :
        \A s \in DOMAIN code_table : Len(code_table[s]) <= n

\* C21: when build_tree has returned its tree, the longest code of the tree is
\* its get_depth minus 1; new goes on to the code table without rebalancing
\* exactly when the longest code has at most 19 bits, and a tree whose longest
\* code has exactly 20 bits enters rebalance.
C21_TwentyBitTreeEntersRebalance ==
    [][(/\ huff.st = "building"
        /\ Len(freq_list) = 1
        /\ huff'.st # "building")
          => LET root == freq_list[1]
                 longest == LongestCode(get_codes(root, <<>>, <<>>))
             IN /\ longest = get_depth(root) - 1
                /\ huff'.st = "ok" <=> longest <= MAX_HUFFMAN_LEN - 1
                /\ longest = MAX_HUFFMAN_LEN => huff'.st = "panic"
                /\ huff'.st = "ok" => LongestCode(huff'.code_table) = longest]_vars

\* new has entered rebalance on a tree whose longest code has exactly 20 bits.
C21_Witness ==
    /\ huff.st = "panic"
    /\ \E l \in InitialFreqLists(freq_map) :
           LongestCode(get_codes(BuildTreeFrom(l), <<>>, <<>>)) = MAX_HUFFMAN_LEN

=============================================================================
